---- MODULE Spec2Model ----
(***************************************************************************)
(* Model of the creational-pattern demos:                                  *)
(*   src/creational/abstract_factory.rs  (IoT device families)             *)
(*   src/creational/factory_method.rs    (CSV / JSON document readers)     *)
(*                                                                         *)
(* Four specifications share the module:                                   *)
(*   Spec         a client driving the device API in any order             *)
(*   SpecRun      abstract_factory::run() over a list of applications      *)
(*   SpecReaders  one read_data call of the CSV or the JSON reader         *)
(*   SpecDocRun   factory_method::run() over data.json and data.csv        *)
(***************************************************************************)
EXTENDS Integers, Sequences, FiniteSets, TLC

VARIABLES
    \* ---- device API client (Spec) ----
    factory,          \* family -> Option<sensor config>
    bulbs,            \* family -> Option<light bulb>
    fans,             \* family -> Option<fan>
    last,             \* the last API call and what it returned
    commanded,        \* history: device -> Option<command of its latest switch>
    \* ---- abstract_factory::run() (SpecRun) ----
    application_list, \* the Vec iterated by run()
    idx,              \* index of the current loop entry (1-based)
    pc,               \* position inside the loop body
    device,           \* Option<Box<dyn DeviceFactory>> of this iteration
    light_bulb,       \* Option<Box<dyn LightBulb>> of this iteration
    fan,              \* Option<Box<dyn Fan>> of this iteration
    created,          \* history: objects constructed so far, with loop index
    \* ---- document readers (SpecReaders) and factory_method::run() (SpecDocRun) ----
    fs,               \* file name -> file (readable flag and content)
    reader_call,      \* Option<[file_name, doc_type, ret]>: one read_data call
    doc_idx,          \* index of the current entry of file_info_list (1-based)
    doc_pc,           \* position inside the loop body of run()
    document_editor,  \* Option<DocumentEditor> of this iteration
    doc_data,         \* Option<DocData> of this iteration
    reads,            \* history: file names handed to a reader, in order
    output            \* history: lines written by run() (println!, panic message)

apiVars == <<factory, bulbs, fans, last, commanded>>
runVars == <<application_list, idx, pc, device, light_bulb, fan, created>>
docVars == <<fs, reader_call, doc_idx, doc_pc, document_editor, doc_data,
             reads, output>>
vars == <<apiVars, runVars, docVars>>

----------------------------------------------------------------------------
\* Rust Option and Result values

None == <<>>
Some(x) == <<x>>
Ok(v) == [ok |-> TRUE, val |-> v]
Err(e) == [ok |-> FALSE, val |-> e]

----------------------------------------------------------------------------
\* enum FanSpeed, ordered by discriminant (derive PartialOrd)

Speed0 == 0
Speed1 == 1
Speed2 == 2
Speed3 == 3
Speed4 == 4
Speed5 == 5
FanSpeed == {Speed0, Speed1, Speed2, Speed3, Speed4, Speed5}

Family == {"Samsung", "Philips"}

\* Sensor configurations a client may construct (brand, ip, port).
SensorConfig ==
    { [brand |-> f, ip |-> "::1", port |-> 3000] : f \in Family } \cup
    { [brand |-> f, ip |-> "::1:1", port |-> 8080] : f \in Family }

----------------------------------------------------------------------------
\* impl LightBulb for PhilipsLightBulb

PhilipsLightBulb_is_switched_on(self) == Ok(self.state)

PhilipsLightBulb_switch(self, command) ==
    [self |-> [self EXCEPT !.state = command], ret |-> Ok(TRUE)]

\* impl Fan for PhilipsFan

\* Mutant: the comparison is made against the first speed, not the zero level.
PhilipsFan_is_switched_on_above_speed1(self) == Ok(self.state > Speed1)

PhilipsFan_is_switched_on(self) == Ok(self.state > Speed0)

PhilipsFan_switch(self, command) ==
    [self |-> [self EXCEPT !.state = command], ret |-> Ok(TRUE)]

\* impl DeviceFactory for PhilipsSensor

PhilipsSensor_create_light_bulb(self) ==
    Ok([sensor_config |-> self, state |-> FALSE])

\* Mutant: the fan is built with a reset port instead of a clone of the config.
PhilipsSensor_create_fan_port_reset(self) ==
    Ok([sensor_config |-> [self EXCEPT !.port = 0], state |-> Speed0])

PhilipsSensor_create_fan(self) ==
    Ok([sensor_config |-> self, state |-> Speed0])

\* impl LightBulb for SamsungLightBulb

SamsungLightBulb_is_switched_on(self) == Ok(self.state)

\* Mutant: the switch turns the bulb on whatever the command.
SamsungLightBulb_switch_always_on(self, command) ==
    [self |-> [self EXCEPT !.state = TRUE], ret |-> Ok(TRUE)]

SamsungLightBulb_switch(self, command) ==
    [self |-> [self EXCEPT !.state = command], ret |-> Ok(TRUE)]

\* impl Fan for SamsungFan

SamsungFan_is_switched_on(self) == Ok(self.state > Speed0)

\* Mutant: the command is added to the current speed instead of replacing it.
SamsungFan_switch_relative(self, command) ==
    [self |-> [self EXCEPT !.state =
                  IF self.state + command > Speed5 THEN Speed5
                  ELSE self.state + command],
     ret |-> Ok(TRUE)]

SamsungFan_switch(self, command) ==
    [self |-> [self EXCEPT !.state = command], ret |-> Ok(TRUE)]

\* impl DeviceFactory for SamsungSensor

SamsungSensor_create_light_bulb(self) ==
    Ok([sensor_config |-> self, state |-> FALSE])

SamsungSensor_create_fan(self) ==
    Ok([sensor_config |-> self, state |-> Speed0])

----------------------------------------------------------------------------
\* Dynamic dispatch through Box<dyn LightBulb>, Box<dyn Fan>,
\* Box<dyn DeviceFactory>: the family tag selects the impl.

LightBulb_is_switched_on(f, self) ==
    IF f = "Philips" THEN PhilipsLightBulb_is_switched_on(self)
    ELSE SamsungLightBulb_is_switched_on(self)

LightBulb_switch(f, self, command) ==
    IF f = "Philips" THEN PhilipsLightBulb_switch(self, command)
    ELSE SamsungLightBulb_switch(self, command)

Fan_is_switched_on(f, self) ==
    IF f = "Philips" THEN PhilipsFan_is_switched_on(self)
    ELSE SamsungFan_is_switched_on(self)

Fan_switch(f, self, command) ==
    IF f = "Philips" THEN PhilipsFan_switch(self, command)
    ELSE SamsungFan_switch(self, command)

DeviceFactory_create_light_bulb(f, self) ==
    IF f = "Philips" THEN PhilipsSensor_create_light_bulb(self)
    ELSE SamsungSensor_create_light_bulb(self)

DeviceFactory_create_fan(f, self) ==
    IF f = "Philips" THEN PhilipsSensor_create_fan(self)
    ELSE SamsungSensor_create_fan(self)

----------------------------------------------------------------------------
\* Spec: a client that owns at most one factory, bulb and fan per family
\* and calls the trait methods in any order.

Call(op, f, kind, arg, ret) ==
    [op |-> op, fam |-> f, kind |-> kind, arg |-> arg, ret |-> ret]

NoDevice == [f \in Family |-> None]
NoCommand == [d \in Family \X {"bulb", "fan"} |-> None]

ApiInit ==
    /\ factory = NoDevice
    /\ bulbs = NoDevice
    /\ fans = NoDevice
    /\ last = Call("none", "none", "none", None, None)
    /\ commanded = NoCommand

\* SamsungSensor { .. } / PhilipsSensor { .. } struct literal
NewSensor(f, cfg) ==
    /\ factory[f] = None
    /\ cfg.brand = f
    /\ factory' = [factory EXCEPT ![f] = Some(cfg)]
    /\ last' = Call("new_sensor", f, "factory", cfg, None)
    /\ UNCHANGED <<bulbs, fans, commanded>>
    /\ UNCHANGED <<runVars, docVars>>

CreateLightBulb(f) ==
    /\ factory[f] # None
    /\ LET r == DeviceFactory_create_light_bulb(f, factory[f][1])
       IN  /\ bulbs' = [bulbs EXCEPT ![f] = Some(r.val)]
           /\ last' = Call("create", f, "bulb", None, r.ok)
    /\ commanded' = [commanded EXCEPT ![<<f, "bulb">>] = None]
    /\ UNCHANGED <<factory, fans>>
    /\ UNCHANGED <<runVars, docVars>>

CreateFan(f) ==
    /\ factory[f] # None
    /\ LET r == DeviceFactory_create_fan(f, factory[f][1])
       IN  /\ fans' = [fans EXCEPT ![f] = Some(r.val)]
           /\ last' = Call("create", f, "fan", None, r.ok)
    /\ commanded' = [commanded EXCEPT ![<<f, "fan">>] = None]
    /\ UNCHANGED <<factory, bulbs>>
    /\ UNCHANGED <<runVars, docVars>>

BulbIsSwitchedOn(f) ==
    /\ bulbs[f] # None
    /\ last' = Call("is_switched_on", f, "bulb", None,
                    LightBulb_is_switched_on(f, bulbs[f][1]))
    /\ UNCHANGED <<factory, bulbs, fans, commanded>>
    /\ UNCHANGED <<runVars, docVars>>

BulbSwitch(f, command) ==
    /\ bulbs[f] # None
    /\ LET r == LightBulb_switch(f, bulbs[f][1], command)
       IN  /\ bulbs' = [bulbs EXCEPT ![f] = Some(r.self)]
           /\ last' = Call("switch", f, "bulb", command, r.ret)
    /\ commanded' = [commanded EXCEPT ![<<f, "bulb">>] = Some(command)]
    /\ UNCHANGED <<factory, fans>>
    /\ UNCHANGED <<runVars, docVars>>

FanIsSwitchedOn(f) ==
    /\ fans[f] # None
    /\ last' = Call("is_switched_on", f, "fan", None,
                    Fan_is_switched_on(f, fans[f][1]))
    /\ UNCHANGED <<factory, bulbs, fans, commanded>>
    /\ UNCHANGED <<runVars, docVars>>

FanSwitch(f, command) ==
    /\ fans[f] # None
    /\ LET r == Fan_switch(f, fans[f][1], command)
       IN  /\ fans' = [fans EXCEPT ![f] = Some(r.self)]
           /\ last' = Call("switch", f, "fan", command, r.ret)
    /\ commanded' = [commanded EXCEPT ![<<f, "fan">>] = Some(command)]
    /\ UNCHANGED <<factory, bulbs>>
    /\ UNCHANGED <<runVars, docVars>>

----------------------------------------------------------------------------------------------------------------------------------------
\* factory_method.rs: struct DocData { name: String, age: u16 }
\* (a name read from CSV is the field's character sequence, a name read from
\* JSON the string literal's value)

U16Max == 65535

DocData(name, age) == [name |-> name, age |-> age]

DocumentType == {"Json", "Csv"}

\* Error values (Box<dyn Error>), told apart by kind.
IoError == "io error"
RecordNotFound == "record not found"
UnequalLengths == "csv: unequal lengths"
InvalidInteger == "invalid integer"
MissingField == "missing field"
DuplicateField == "duplicate field"
InvalidType == "invalid type"
InvalidLength == "invalid length"
TrailingCharacters == "trailing characters"
SyntaxError == "json syntax error"

\* The variables of a demo that a specification does not run.
RunIdle ==
    /\ application_list = <<>>
    /\ idx = 0
    /\ pc = "idle"
    /\ device = None
    /\ light_bulb = None
    /\ fan = None
    /\ created = <<>>

DocIdle ==
    /\ fs = <<>>
    /\ reader_call = None
    /\ doc_idx = 0
    /\ doc_pc = "idle"
    /\ document_editor = None
    /\ doc_data = None
    /\ reads = <<>>
    /\ output = <<>>

----------------------------------------------------------------------------
\* CSV files.  A file is a list of records as the csv parser splits them,
\* each a list of fields, each field the sequence of its characters.  The
\* first record is the header (csv::Reader has_headers = true by default).

DigitValue(c) ==
    CASE c = "0" -> 0 [] c = "1" -> 1 [] c = "2" -> 2 [] c = "3" -> 3
      [] c = "4" -> 4 [] c = "5" -> 5 [] c = "6" -> 6 [] c = "7" -> 7
      [] c = "8" -> 8 [] c = "9" -> 9 [] OTHER -> -1

\* <u16 as FromStr>::from_str on the digits after an optional sign:
\* every character must be a decimal digit, the value must fit 16 bits.
RECURSIVE ParseDigits(_, _, _)
ParseDigits(text, i, acc) ==
    IF i > Len(text) THEN Ok(acc)
    ELSE IF DigitValue(text[i]) < 0 THEN Err(InvalidInteger)
    ELSE IF acc * 10 + DigitValue(text[i]) > U16Max THEN Err(InvalidInteger)
    ELSE ParseDigits(text, i + 1, acc * 10 + DigitValue(text[i]))

\* field.parse::<u16>(): empty text fails, one leading '+' is accepted,
\* '-' is no digit of an unsigned type, a sign alone fails.
ParseU16(text) ==
    IF text = <<>> THEN Err(InvalidInteger)
    ELSE IF text[1] = "+"
    THEN IF Len(text) = 1 THEN Err(InvalidInteger)
         ELSE ParseDigits(Tail(text), 1, 0)
    ELSE ParseDigits(text, 1, 0)

\* serde's derived Deserialize for DocData over a map of (header, field)
\* pairs in column order: "name" and "age" are taken once each, a repeated
\* column is an error, any other column is ignored, a missing one is an error.
RECURSIVE CsvVisitMap(_, _, _, _, _)
CsvVisitMap(headers, record, i, name, age) ==
    IF i > Len(headers)
    THEN IF name = None \/ age = None THEN Err(MissingField)
         ELSE Ok(DocData(name[1], age[1]))
    ELSE IF headers[i] = <<"n", "a", "m", "e">>
    THEN IF name # None THEN Err(DuplicateField)
         ELSE CsvVisitMap(headers, record, i + 1, Some(record[i]), age)
    ELSE IF headers[i] = <<"a", "g", "e">>
    THEN IF age # None THEN Err(DuplicateField)
         ELSE LET n == ParseU16(record[i])
              IN  IF n.ok
                  THEN CsvVisitMap(headers, record, i + 1, name, Some(n.val))
                  ELSE Err(n.val)
    ELSE CsvVisitMap(headers, record, i + 1, name, age)

\* One item of rdr.deserialize(): read the next record (a record whose
\* field count differs from the header's is an error, the reader not being
\* flexible), then deserialize it against the headers.
CsvDeserializeRecord(headers, record) ==
    IF Len(record) # Len(headers) THEN Err(UnequalLengths)
    ELSE CsvVisitMap(headers, record, 1, None, None)

\* Mutant: the loop keeps the last record instead of returning the first.
CsvProcessor_read_data_last_row(file) ==
    IF ~file.readable THEN Err(IoError)
    ELSE IF Len(file.records) <= 1 THEN Err(RecordNotFound)
    ELSE LET result == CsvDeserializeRecord(file.records[1],
                                            file.records[Len(file.records)])
         IN  IF result.ok THEN Ok(result.val) ELSE Err(result.val)

\* Mutant: the reader is built without headers, so the header row is
\* deserialized as the first record (against itself).
CsvProcessor_read_data_no_headers(file) ==
    IF ~file.readable THEN Err(IoError)
    ELSE IF Len(file.records) = 0 THEN Err(RecordNotFound)
    ELSE LET result == CsvDeserializeRecord(file.records[1], file.records[1])
         IN  IF result.ok THEN Ok(result.val) ELSE Err(result.val)

\* Mutant: a record that fails to deserialize is skipped (`continue`)
\* instead of being returned with `?`.
RECURSIVE CsvFirstGoodFrom(_, _)
CsvFirstGoodFrom(file, i) ==
    IF i > Len(file.records) THEN Err(RecordNotFound)
    ELSE LET result == CsvDeserializeRecord(file.records[1], file.records[i])
         IN  IF result.ok THEN Ok(result.val) ELSE CsvFirstGoodFrom(file, i + 1)

CsvProcessor_read_data_skip_bad(file) ==
    IF ~file.readable THEN Err(IoError) ELSE CsvFirstGoodFrom(file, 2)

\* impl DocumentProcessor for CsvProcessor: fn read_data
\*   let mut rdr = csv::Reader::from_path(file_name)?;
\*   for result in rdr.deserialize() { let record = result?; return Ok(record); }
\*   Err("record not found")
CsvProcessor_read_data(file) ==
    IF ~file.readable THEN Err(IoError)
    ELSE IF Len(file.records) <= 1 THEN Err(RecordNotFound)
    ELSE LET result == CsvDeserializeRecord(file.records[1], file.records[2])
         IN  IF result.ok THEN Ok(result.val) ELSE Err(result.val)

----------------------------------------------------------------------------
\* JSON files.  A file is what serde_json's reader meets: text that is no
\* JSON at all, or one JSON value (object, array or scalar) that may be
\* followed by further non-blank characters.  Scalars are strings, integer
\* and fractional numbers and null; the elements of an object carry a key.

JStr(s) == [t |-> "str", s |-> s, n |-> 0]
JInt(n) == [t |-> "int", s |-> "", n |-> n]
JFloat == [t |-> "float", s |-> "", n |-> 0]
JNull == [t |-> "null", s |-> "", n |-> 0]

\* String::deserialize on a JSON value
JsonString(v) == IF v.t = "str" THEN Ok(v.s) ELSE Err(InvalidType)

\* u16::deserialize on a JSON value: an integer literal within 0..=u16::MAX
JsonU16(v) ==
    IF v.t # "int" THEN Err(InvalidType)
    ELSE IF v.n < 0 \/ v.n > U16Max THEN Err(InvalidInteger)
    ELSE Ok(v.n)

\* derived visit_map for DocData over the members of a JSON object
RECURSIVE JsonVisitMap(_, _, _, _)
JsonVisitMap(elems, i, name, age) ==
    IF i > Len(elems)
    THEN IF name = None \/ age = None THEN Err(MissingField)
         ELSE Ok(DocData(name[1], age[1]))
    ELSE IF elems[i].k = "name"
    THEN IF name # None THEN Err(DuplicateField)
         ELSE LET r == JsonString(elems[i].v)
              IN  IF r.ok THEN JsonVisitMap(elems, i + 1, Some(r.val), age)
                  ELSE Err(r.val)
    ELSE IF elems[i].k = "age"
    THEN IF age # None THEN Err(DuplicateField)
         ELSE LET r == JsonU16(elems[i].v)
              IN  IF r.ok THEN JsonVisitMap(elems, i + 1, name, Some(r.val))
                  ELSE Err(r.val)
    ELSE JsonVisitMap(elems, i + 1, name, age)

\* derived visit_seq for DocData over the items of a JSON array: the fields
\* in declaration order, name then age; serde_json rejects further items.
JsonVisitSeq(elems) ==
    IF Len(elems) < 1 THEN Err(InvalidLength)
    ELSE LET name == JsonString(elems[1].v)
         IN  IF ~name.ok THEN Err(name.val)
             ELSE IF Len(elems) < 2 THEN Err(InvalidLength)
             ELSE LET age == JsonU16(elems[2].v)
                  IN  IF ~age.ok THEN Err(age.val)
                      ELSE IF Len(elems) > 2 THEN Err(TrailingCharacters)
                      ELSE Ok(DocData(name.val, age.val))

\* Mutant: the value is deserialized without the end-of-input check.
JsonFromStr_no_end_check(text) ==
    IF ~text.json THEN Err(SyntaxError)
    ELSE LET data == IF text.kind = "obj" THEN JsonVisitMap(text.elems, 1, None, None)
                     ELSE IF text.kind = "arr" THEN JsonVisitSeq(text.elems)
                     ELSE Err(InvalidType)
         IN  IF ~data.ok THEN Err(data.val) ELSE Ok(data.val)

\* serde_json::from_str::<DocData>: deserialize_struct takes an object
\* (visit_map) or an array (visit_seq), then the input must be at its end.
JsonFromStr(text) ==
    IF ~text.json THEN Err(SyntaxError)
    ELSE LET data == IF text.kind = "obj" THEN JsonVisitMap(text.elems, 1, None, None)
                     ELSE IF text.kind = "arr" THEN JsonVisitSeq(text.elems)
                     ELSE Err(InvalidType)
         IN  IF ~data.ok THEN Err(data.val)
             ELSE IF text.trailing THEN Err(TrailingCharacters)
             ELSE Ok(data.val)

\* impl DocumentProcessor for JsonProcessor: fn read_data
\*   let file_data = std::fs::read_to_string(file_name)?;
\*   let data: DocData = serde_json::from_str(&file_data)?;
JsonProcessor_read_data(file) ==
    IF ~file.readable THEN Err(IoError)
    ELSE LET data == JsonFromStr(file.text)
         IN  IF data.ok THEN Ok(data.val) ELSE Err(data.val)

\* DocumentEditorFactory::create_editor
create_editor(file_name, doc_type) ==
    IF doc_type = "Csv"
    THEN [file_name |-> file_name, reader |-> "CsvProcessor"]
    ELSE [file_name |-> file_name, reader |-> "JsonProcessor"]

\* DocumentEditor::read_data: self.reader.read_data(self.file_name.clone())
DocumentEditor_read_data(self, files) ==
    IF self.reader = "CsvProcessor"
    THEN CsvProcessor_read_data(files[self.file_name])
    ELSE JsonProcessor_read_data(files[self.file_name])

----------------------------------------------------------------------------
\* Input files of the reader specifications

MaxDataRows == 3
MaxMembers == 3

NAME == <<"n", "a", "m", "e">>
AGE == <<"a", "g", "e">>
CITY == <<"c", "i", "t", "y">>
Al == <<"A", "l">>
Bo == <<"B", "o">>

CsvHeaders ==
    { <<NAME, AGE>>, <<AGE, NAME>>, <<NAME>>, <<NAME, AGE, CITY>>,
      <<NAME, AGE, NAME>> }

CsvRows ==
    { <<Al, <<"3", "0">>>>,
      <<<<"3", "0">>, Al>>,
      <<Bo, <<"7">>>>,
      <<Bo, <<"6", "5", "5", "3", "5">>>>,
      <<Bo, <<"6", "5", "5", "3", "6">>>>,
      <<Al, <<"x">>>>,
      <<Al, <<>>>>,
      <<Al, <<"+", "5">>>>,
      <<Al, <<"-", "1">>>>,
      <<Al>>,
      <<Al, <<"3", "0">>, Bo>> }

CsvFile(readable, records) == [readable |-> readable, records |-> records]

JsonValues ==
    { JStr("Alice"), JInt(30), JInt(U16Max), JInt(U16Max + 1), JInt(-1), JFloat }

JsonText(kind, elems, trailing) ==
    [json |-> TRUE, kind |-> kind, elems |-> elems, trailing |-> trailing]

NotJson == [json |-> FALSE, kind |-> "none", elems |-> <<>>, trailing |-> FALSE]

JsonMembers == [k : {"name", "age", "city"}, v : JsonValues]
JsonItems == [k : {""}, v : JsonValues]

JsonFile(readable, text) == [readable |-> readable, text |-> text]

----------------------------------------------------------------------------
\* SpecReaders: one read_data call of a reader obtained from the factory,
\* on any of the files above.

\* The file read: data.csv, unreadable, empty, or a header followed by at
\* most MaxDataRows data rows; or data.json, unreadable, no JSON, or one
\* object, array or scalar, alone or followed by further text.
ReadersInit ==
    /\ ApiInit
    /\ RunIdle
    /\ \/ \E readable \in BOOLEAN :
              fs = [n \in {"data.csv"} |-> CsvFile(readable, <<>>)]
       \/ \E h \in CsvHeaders, k \in 0..MaxDataRows :
              \E rows \in [1..k -> CsvRows] :
                  fs = [n \in {"data.csv"} |-> CsvFile(TRUE, <<h>> \o rows)]
       \/ \E readable \in BOOLEAN :
              fs = [n \in {"data.json"} |-> JsonFile(readable, NotJson)]
       \/ \E k \in 0..MaxMembers, trailing \in BOOLEAN :
              \E members \in [1..k -> JsonMembers] :
                  fs = [n \in {"data.json"} |->
                            JsonFile(TRUE, JsonText("obj", members, trailing))]
       \/ \E k \in 0..MaxMembers, trailing \in BOOLEAN :
              \E items \in [1..k -> JsonItems] :
                  fs = [n \in {"data.json"} |->
                            JsonFile(TRUE, JsonText("arr", items, trailing))]
       \/ \E item \in JsonItems, trailing \in BOOLEAN :
              fs = [n \in {"data.json"} |->
                        JsonFile(TRUE, JsonText("scalar", <<item>>, trailing))]
    /\ reader_call = None
    /\ doc_idx = 0
    /\ doc_pc = "idle"
    /\ document_editor = None
    /\ doc_data = None
    /\ reads = <<>>
    /\ output = <<>>

\* DocumentEditorFactory::create_editor(..).read_data()
ReadDataCall(file_name, doc_type) ==
    [file_name |-> file_name, doc_type |-> doc_type,
     ret |-> DocumentEditor_read_data(create_editor(file_name, doc_type), fs)]

CsvReadData ==
    /\ reader_call = None
    /\ "data.csv" \in DOMAIN fs
    /\ reader_call' = Some(ReadDataCall("data.csv", "Csv"))
    /\ UNCHANGED <<fs, doc_idx, doc_pc, document_editor, doc_data, reads, output>>
    /\ UNCHANGED <<apiVars, runVars>>

JsonReadData ==
    /\ reader_call = None
    /\ "data.json" \in DOMAIN fs
    /\ reader_call' = Some(ReadDataCall("data.json", "Json"))
    /\ UNCHANGED <<fs, doc_idx, doc_pc, document_editor, doc_data, reads, output>>
    /\ UNCHANGED <<apiVars, runVars>>

ReadersNext ==
    \/ CsvReadData
    \/ JsonReadData

SpecReaders == ReadersInit /\ [][ReadersNext]_vars

----------------------------------------------------------------------------
\* SpecDocRun: pub fn run() of factory_method.rs over a file system that
\* holds data.json and data.csv with any of the contents below.

file_info_list ==
    << [name |-> "data.json", type |-> "Json"],
       [name |-> "data.csv", type |-> "Csv"] >>

DemoJsonFiles ==
    { JsonFile(FALSE, NotJson),
      JsonFile(TRUE, NotJson),
      JsonFile(TRUE, JsonText("obj", << [k |-> "name", v |-> JStr("Alice")],
                                        [k |-> "age", v |-> JInt(30)] >>, FALSE)),
      JsonFile(TRUE, JsonText("obj", << [k |-> "age", v |-> JInt(30)],
                                        [k |-> "name", v |-> JStr("Alice")] >>, TRUE)),
      JsonFile(TRUE, JsonText("obj", << [k |-> "name", v |-> JStr("Alice")] >>, FALSE)),
      JsonFile(TRUE, JsonText("obj", << [k |-> "name", v |-> JStr("Alice")],
                                        [k |-> "age", v |-> JInt(U16Max + 1)] >>, FALSE)),
      JsonFile(TRUE, JsonText("arr", << [k |-> "", v |-> JStr("Alice")],
                                        [k |-> "", v |-> JInt(30)] >>, FALSE)),
      JsonFile(TRUE, JsonText("scalar", << [k |-> "", v |-> JInt(30)] >>, FALSE)) }

DemoCsvFiles ==
    { CsvFile(FALSE, <<>>),
      CsvFile(TRUE, <<>>),
      CsvFile(TRUE, << <<NAME, AGE>> >>),
      CsvFile(TRUE, << <<NAME, AGE>>, <<Al, <<"3", "0">>>> >>),
      CsvFile(TRUE, << <<NAME, AGE>>, <<Bo, <<"7">>>>, <<Al, <<"x">>>> >>),
      CsvFile(TRUE, << <<NAME, AGE>>, <<Al, <<"x">>>>, <<Bo, <<"7">>>> >>),
      CsvFile(TRUE, << <<AGE, NAME>>, <<<<"3", "0">>, Al>> >>),
      CsvFile(TRUE, << <<NAME>>, <<Al>> >>) }

DocRunInit ==
    /\ ApiInit
    /\ RunIdle
    /\ \E j \in DemoJsonFiles, c \in DemoCsvFiles :
           fs = [n \in {"data.json", "data.csv"} |->
                     IF n = "data.json" THEN j ELSE c]
    /\ reader_call = None
    /\ doc_idx = 1
    /\ doc_pc = "create_editor"
    /\ document_editor = None
    /\ doc_data = None
    /\ reads = <<>>
    /\ output = <<>>

\* let document_editor = DocumentEditorFactory::create_editor(..);
DocCreateEditor ==
    /\ doc_pc = "create_editor"
    /\ document_editor' = Some(create_editor(file_info_list[doc_idx].name,
                                             file_info_list[doc_idx].type))
    /\ doc_pc' = "read_data"
    /\ UNCHANGED <<fs, reader_call, doc_idx, doc_data, reads, output>>
    /\ UNCHANGED <<apiVars, runVars>>

\* Mutant: a failed read is reported and the loop goes on to the next file.
DocReadData_continue_on_error ==
    /\ doc_pc = "read_data"
    /\ LET ret == DocumentEditor_read_data(document_editor[1], fs)
       IN  /\ reader_call' = Some([file_name |-> document_editor[1].file_name,
                                   doc_type |-> file_info_list[doc_idx].type,
                                   ret |-> ret])
           /\ IF ret.ok
              THEN /\ doc_data' = Some(ret.val)
                   /\ doc_pc' = "print"
                   /\ output' = output
                   /\ doc_idx' = doc_idx
              ELSE /\ doc_data' = None
                   /\ doc_pc' = IF doc_idx + 1 > Len(file_info_list) THEN "done"
                                ELSE "create_editor"
                   /\ doc_idx' = doc_idx + 1
                   /\ output' = Append(output,
                          [stream |-> "stderr", file |-> "",
                           text |-> <<"Error reading data from doc", ret.val>>])
    /\ reads' = Append(reads, document_editor[1].file_name)
    /\ UNCHANGED <<fs, document_editor>>
    /\ UNCHANGED <<apiVars, runVars>>

\* let doc_data = document_editor.read_data().expect("Error reading data from doc");
DocReadData ==
    /\ doc_pc = "read_data"
    /\ LET ret == DocumentEditor_read_data(document_editor[1], fs)
       IN  /\ reader_call' = Some([file_name |-> document_editor[1].file_name,
                                   doc_type |-> file_info_list[doc_idx].type,
                                   ret |-> ret])
           /\ IF ret.ok
              THEN /\ doc_data' = Some(ret.val)
                   /\ doc_pc' = "print"
                   /\ output' = output
              ELSE /\ doc_data' = None
                   /\ doc_pc' = "panicked"
                   /\ output' = Append(output,
                          [stream |-> "stderr", file |-> "",
                           text |-> <<"Error reading data from doc", ret.val>>])
    /\ reads' = Append(reads, document_editor[1].file_name)
    /\ UNCHANGED <<fs, doc_idx, document_editor>>
    /\ UNCHANGED <<apiVars, runVars>>

\* println!("file :: {}, doc_data :: {:?}", file_info.0, doc_data);
DocPrint ==
    /\ doc_pc = "print"
    /\ output' = Append(output,
           [stream |-> "stdout", file |-> file_info_list[doc_idx].name,
            text |-> doc_data[1]])
    /\ doc_idx' = doc_idx + 1
    /\ doc_pc' = IF doc_idx + 1 > Len(file_info_list) THEN "done"
                 ELSE "create_editor"
    \* end of the loop body: its locals are dropped
    /\ document_editor' = None
    /\ doc_data' = None
    /\ UNCHANGED <<fs, reader_call, reads>>
    /\ UNCHANGED <<apiVars, runVars>>

DocRunNext ==
    \/ DocCreateEditor
    \/ DocReadData
    \/ DocPrint

SpecDocRun == DocRunInit /\ [][DocRunNext]_vars

----------------
\* SpecRun: pub fn run() of abstract_factory.rs.  The Vec literal of the
\* source holds ("Samsung", ::1, 3000) and ("Philips", ::1:1, 8080); the model
\* runs the same loop over every list of at most MaxApps entries, including
\* entries whose selector names no family.

MaxApps == 3

Application ==
    { [brand |-> "Samsung", ip |-> "::1", port |-> 3000],
      [brand |-> "Philips", ip |-> "::1:1", port |-> 8080],
      [brand |-> "LG", ip |-> "::2", port |-> 9090] }

\* Mutant: the wildcard arm falls back to a Philips factory.
SelectFactory_default_philips(application) ==
    IF application.brand = "Samsung"
    THEN [panic |-> FALSE, fam |-> "Samsung",
          sensor |-> Some([brand |-> application.brand,
                           ip |-> application.ip, port |-> application.port])]
    ELSE [panic |-> FALSE, fam |-> "Philips",
          sensor |-> Some([brand |-> application.brand,
                           ip |-> application.ip, port |-> application.port])]

\* match application.0 { "Samsung" => .., "Philips" => .., _ => panic!(..) }
SelectFactory(application) ==
    IF application.brand = "Samsung"
    THEN [panic |-> FALSE, fam |-> "Samsung",
          sensor |-> Some([brand |-> application.brand,
                           ip |-> application.ip, port |-> application.port])]
    ELSE IF application.brand = "Philips"
    THEN [panic |-> FALSE, fam |-> "Philips",
          sensor |-> Some([brand |-> application.brand,
                           ip |-> application.ip, port |-> application.port])]
    ELSE [panic |-> TRUE, fam |-> "none", sensor |-> None]

Made(what) == Append(created, [idx |-> idx, what |-> what])

\* `for application in application_list`: next entry, or loop exit
RunAdvance(after) ==
    IF after > Len(application_list)
    THEN idx' = after /\ pc' = "done"
    ELSE idx' = after /\ pc' = "select"

RunInit ==
    /\ \E n \in 0..MaxApps : application_list \in [1..n -> Application]
    /\ idx = 1
    /\ pc = IF application_list = <<>> THEN "done" ELSE "select"
    /\ device = None
    /\ light_bulb = None
    /\ fan = None
    /\ created = <<>>

\* let device: Box<dyn DeviceFactory> = match application.0 { .. };
RunSelect ==
    /\ pc = "select"
    /\ LET sel == SelectFactory(application_list[idx])
       IN  IF sel.panic
           THEN /\ pc' = "panicked"
                /\ device' = None
                /\ created' = created
           ELSE /\ pc' = "create_light_bulb"
                /\ device' = Some([fam |-> sel.fam, sensor |-> sel.sensor[1]])
                /\ created' = Made("factory")
    /\ UNCHANGED <<application_list, idx, light_bulb, fan>>
    /\ UNCHANGED <<apiVars, docVars>>

\* let mut light_bulb = device.create_light_bulb().unwrap();
RunCreateLightBulb ==
    /\ pc = "create_light_bulb"
    /\ LET r == DeviceFactory_create_light_bulb(device[1].fam, device[1].sensor)
       IN  IF r.ok
           THEN /\ light_bulb' = Some(r.val)
                /\ created' = Made("light_bulb")
                /\ pc' = "bulb_query_1"
           ELSE /\ light_bulb' = None
                /\ created' = created
                /\ pc' = "panicked"
    /\ UNCHANGED <<application_list, idx, device, fan>>
    /\ UNCHANGED <<apiVars, docVars>>

\* let _ = light_bulb.is_switched_on();   (both occurrences)
RunBulbQuery ==
    /\ pc \in {"bulb_query_1", "bulb_query_2"}
    /\ pc' = IF pc = "bulb_query_1" THEN "bulb_switch" ELSE "create_fan"
    /\ UNCHANGED <<application_list, idx, device, light_bulb, fan, created>>
    /\ UNCHANGED <<apiVars, docVars>>

\* let _ = light_bulb.switch(true);
RunBulbSwitch ==
    /\ pc = "bulb_switch"
    /\ light_bulb' =
           Some(LightBulb_switch(device[1].fam, light_bulb[1], TRUE).self)
    /\ pc' = "bulb_query_2"
    /\ UNCHANGED <<application_list, idx, device, fan, created>>
    /\ UNCHANGED <<apiVars, docVars>>

\* let mut fan = device.create_fan().unwrap();
RunCreateFan ==
    /\ pc = "create_fan"
    /\ LET r == DeviceFactory_create_fan(device[1].fam, device[1].sensor)
       IN  IF r.ok
           THEN /\ fan' = Some(r.val)
                /\ created' = Made("fan")
                /\ pc' = "fan_query_1"
           ELSE /\ fan' = None
                /\ created' = created
                /\ pc' = "panicked"
    /\ UNCHANGED <<application_list, idx, device, light_bulb>>
    /\ UNCHANGED <<apiVars, docVars>>

\* let _ = fan.is_switched_on();   (first occurrence)
RunFanQuery1 ==
    /\ pc = "fan_query_1"
    /\ pc' = "fan_switch"
    /\ UNCHANGED <<application_list, idx, device, light_bulb, fan, created>>
    /\ UNCHANGED <<apiVars, docVars>>

\* let _ = fan.switch(FanSpeed::Speed4);
RunFanSwitch ==
    /\ pc = "fan_switch"
    /\ fan' = Some(Fan_switch(device[1].fam, fan[1], Speed4).self)
    /\ pc' = "fan_query_2"
    /\ UNCHANGED <<application_list, idx, device, light_bulb, created>>
    /\ UNCHANGED <<apiVars, docVars>>

\* let _ = fan.is_switched_on();   (second occurrence, end of the loop body)
RunFanQuery2 ==
    /\ pc = "fan_query_2"
    /\ RunAdvance(idx + 1)
    \* end of the loop body: its locals are dropped
    /\ device' = None
    /\ light_bulb' = None
    /\ fan' = None
    /\ UNCHANGED <<application_list, created>>
    /\ UNCHANGED <<apiVars, docVars>>

RunNext ==
    \/ RunSelect
    \/ RunCreateLightBulb
    \/ RunBulbQuery
    \/ RunBulbSwitch
    \/ RunCreateFan
    \/ RunFanQuery1
    \/ RunFanSwitch
    \/ RunFanQuery2

InitRun == ApiInit /\ RunInit /\ DocIdle
SpecRun == InitRun /\ [][RunNext]_vars

ApiNext ==
    \/ \E f \in Family, cfg \in SensorConfig : NewSensor(f, cfg)
    \/ \E f \in Family : CreateLightBulb(f)
    \/ \E f \in Family : CreateFan(f)
    \/ \E f \in Family : BulbIsSwitchedOn(f)
    \/ \E f \in Family, command \in BOOLEAN : BulbSwitch(f, command)
    \/ \E f \in Family : FanIsSwitchedOn(f)
    \/ \E f \in Family, command \in FanSpeed : FanSwitch(f, command)

Init == ApiInit /\ RunIdle /\ DocIdle
Next == ApiNext
Spec == Init /\ [][Next]_vars

----------------------------------------------------------------------------
\* Properties of the device API (Spec)

Bulb(f) == <<f, "bulb">>
FanOf(f) == <<f, "fan">>

\* C1: for either family, once a light bulb has been switched, its
\* is_switched_on answers the boolean of the most recent switch command,
\* whatever calls came before: the query operator applied to the bulb gives
\* it, and so does every is_switched_on call actually made.
C1_BulbReportsLastCommand ==
    \A f \in Family :
        (bulbs[f] # None /\ commanded[Bulb(f)] # None) =>
            /\ LightBulb_is_switched_on(f, bulbs[f][1]) = Ok(commanded[Bulb(f)][1])
            /\ (last.op = "is_switched_on" /\ last.fam = f /\ last.kind = "bulb")
                   => last.ret = Ok(commanded[Bulb(f)][1])

\* C1 witness: a Samsung bulb was switched on and the query just answered
\* true, while a Philips bulb, switched earlier, was last switched off.
C1_Witness ==
    /\ last.op = "is_switched_on" /\ last.fam = "Samsung" /\ last.kind = "bulb"
    /\ commanded[Bulb("Samsung")] = Some(TRUE)
    /\ last.ret = Ok(TRUE)
    /\ commanded[Bulb("Philips")] = Some(FALSE)
    /\ bulbs["Philips"] # None

\* C2: for either family and every speed L, once a fan has been switched to
\* L its is_switched_on answers exactly L > Speed0; a fan holds a config and
\* a speed and no stored on/off boolean.
C2_FanOnIffSpeedAboveZero ==
    \A f \in Family :
        fans[f] # None =>
            /\ DOMAIN fans[f][1] = {"sensor_config", "state"}
            /\ fans[f][1].state \in FanSpeed
            /\ commanded[FanOf(f)] # None =>
                   /\ Fan_is_switched_on(f, fans[f][1])
                          = Ok(commanded[FanOf(f)][1] > Speed0)
                   /\ (last.op = "is_switched_on" /\ last.fam = f /\ last.kind = "fan")
                          => last.ret = Ok(commanded[FanOf(f)][1] # Speed0)

\* C2 witness: a Philips fan switched to Speed1 just answered true and a
\* Samsung fan was last switched to Speed0.
C2_Witness ==
    /\ last.op = "is_switched_on" /\ last.fam = "Philips" /\ last.kind = "fan"
    /\ commanded[FanOf("Philips")] = Some(Speed1)
    /\ last.ret = Ok(TRUE)
    /\ commanded[FanOf("Samsung")] = Some(Speed0)
    /\ fans["Samsung"] # None

\* C3: every switch on any bulb or fan, in any state and with any command,
\* returns Ok(true), and switching twice with one command leaves the device
\* as switching once does.
C3_SwitchSucceedsAndIsIdempotent ==
    /\ last.op = "switch" => last.ret = Ok(TRUE)
    /\ \A f \in Family :
        /\ bulbs[f] # None =>
              \A command \in BOOLEAN :
                  LET once == LightBulb_switch(f, bulbs[f][1], command)
                      twice == LightBulb_switch(f, once.self, command)
                  IN  /\ once.ret = Ok(TRUE)
                      /\ twice.ret = Ok(TRUE)
                      /\ twice.self = once.self
        /\ fans[f] # None =>
              \A command \in FanSpeed :
                  LET once == Fan_switch(f, fans[f][1], command)
                      twice == Fan_switch(f, once.self, command)
                  IN  /\ once.ret = Ok(TRUE)
                      /\ twice.ret = Ok(TRUE)
                      /\ twice.self = once.self

\* C3 witness: a Samsung fan running at Speed2 was just switched, a Philips
\* bulb that is on exists.
C3_Witness ==
    /\ last.op = "switch" /\ last.fam = "Samsung" /\ last.kind = "fan"
    /\ last.arg = Speed2
    /\ fans["Samsung"] # None /\ fans["Samsung"][1].state = Speed2
    /\ bulbs["Philips"] # None /\ bulbs["Philips"][1].state = TRUE

\* Every device carries the config of the factory of its family.
ConfigCloned ==
    \A f \in Family :
        /\ bulbs[f] # None =>
               factory[f] # None /\ bulbs[f][1].sensor_config = factory[f][1]
        /\ fans[f] # None =>
               factory[f] # None /\ fans[f][1].sensor_config = factory[f][1]

\* What one call may change: a query nothing, a switch only the state of the
\* device it is called on, a create only the slot it fills, and a factory's
\* config never once it is set.
FrameStep ==
    /\ \A f \in Family : factory[f] # None => factory'[f] = factory[f]
    /\ last'.op = "is_switched_on" =>
           /\ factory' = factory /\ bulbs' = bulbs /\ fans' = fans
    /\ \A f \in Family :
        /\ bulbs'[f] # bulbs[f] =>
               /\ last'.fam = f /\ last'.kind = "bulb"
               /\ last'.op \in {"create", "switch"}
               /\ last'.op = "switch" =>
                      /\ bulbs[f] # None
                      /\ bulbs'[f][1].sensor_config = bulbs[f][1].sensor_config
        /\ fans'[f] # fans[f] =>
               /\ last'.fam = f /\ last'.kind = "fan"
               /\ last'.op \in {"create", "switch"}
               /\ last'.op = "switch" =>
                      /\ fans[f] # None
                      /\ fans'[f][1].sensor_config = fans[f][1].sensor_config
    /\ last'.op = "switch" => factory' = factory

\* C9: device state changes only through the device's own switch, a switch
\* leaves the device's config, the factory's config and every other device
\* alone, is_switched_on changes nothing, and every device carries its
\* factory's config for its whole life.
C9_FrameAndConfig == []ConfigCloned /\ [][FrameStep]_vars

\* C9 witness: all four devices exist with non-initial state under two
\* different configs, and the last call switched the Philips fan.
C9_Witness ==
    /\ last.op = "switch" /\ last.fam = "Philips" /\ last.kind = "fan"
    /\ \A f \in Family : bulbs[f] # None /\ fans[f] # None
    /\ bulbs["Samsung"][1].state = TRUE
    /\ fans["Samsung"][1].state = Speed3
    /\ fans["Philips"][1].state = Speed5
    /\ factory["Samsung"][1].port # factory["Philips"][1].port

----------------------------------------------------------------------------
\* Properties of abstract_factory::run() (SpecRun)

Supported(application) == application.brand \in {"Samsung", "Philips"}

\* C4: only "Samsung" and "Philips" select a factory; at any other selector
\* the run panics at the selection step, nothing is created for that entry
\* and no later entry is processed.
C4_UnknownFamilyAborts ==
    /\ \A i \in 1..Len(application_list) :
           ~Supported(application_list[i]) =>
               /\ idx <= i
               /\ \A e \in 1..Len(created) : created[e].idx < i
               /\ (idx = i /\ pc # "select") =>
                      /\ pc = "panicked"
                      /\ device = None /\ light_bulb = None /\ fan = None
    /\ pc = "panicked" => ~Supported(application_list[idx])
    /\ pc \notin {"select", "panicked", "done"} =>
           /\ Supported(application_list[idx])
           /\ device # None
           /\ device[1].fam = application_list[idx].brand
           /\ device[1].sensor.brand = application_list[idx].brand

\* C4 witness: the run panicked at an "LG" entry in second place, after a
\* full first iteration, with a further entry left unprocessed.
C4_Witness ==
    /\ pc = "panicked"
    /\ idx = 2
    /\ Len(application_list) = 3
    /\ application_list[2].brand = "LG"
    /\ Len(created) = 3

----------------------------------------------------------------------------
\* Properties of the readers (SpecReaders)

CsvCalled == reader_call # None /\ reader_call[1].doc_type = "Csv"
JsonCalled == reader_call # None /\ reader_call[1].doc_type = "Json"
CsvInput == fs["data.csv"]
JsonInput == fs["data.json"]
Ret == reader_call[1].ret

\* The columns of the header that carry a given name.
Columns(headers, key) == { i \in 1..Len(headers) : headers[i] = key }
Column(headers, key) == CHOOSE i \in Columns(headers, key) : TRUE

\* The number a text of decimal digits denotes.
RECURSIVE DecimalValue(_)
DecimalValue(digits) ==
    IF digits = <<>> THEN 0
    ELSE 10 * DecimalValue(SubSeq(digits, 1, Len(digits) - 1))
             + DigitValue(digits[Len(digits)])

Unsigned(text) == IF text # <<>> /\ text[1] = "+" THEN Tail(text) ELSE text

\* The text writes a number of 0..65535 in decimal.
IsDecimalU16(text) ==
    /\ Unsigned(text) # <<>>
    /\ \A i \in 1..Len(Unsigned(text)) : DigitValue(Unsigned(text)[i]) >= 0
    /\ DecimalValue(Unsigned(text)) <= U16Max

\* The header names the two fields of a record, once each.
HeaderMaps(file) ==
    /\ Cardinality(Columns(file.records[1], NAME)) = 1
    /\ Cardinality(Columns(file.records[1], AGE)) = 1

\* The first data row maps to {name, age} under the header: the header has
\* one name and one age column, the row one field per column, the age field
\* a decimal number of 16 bits.
FirstRowMaps(file) ==
    /\ HeaderMaps(file)
    /\ Len(file.records[2]) = Len(file.records[1])
    /\ IsDecimalU16(file.records[2][Column(file.records[1], AGE)])

FirstRowRecord(file) ==
    DocData(file.records[2][Column(file.records[1], NAME)],
            DecimalValue(Unsigned(file.records[2][Column(file.records[1], AGE)])))

FirstRowOnly(file) == CsvFile(file.readable, SubSeq(file.records, 1, 2))

\* C5 as stated: on a readable source with a header row (one that names
\* name and age) and N >= 1 data rows, whatever they hold, the CSV reader
\* returns a record, the one of the first data row.
C5_AsStated ==
    (CsvCalled /\ CsvInput.readable /\ Len(CsvInput.records) >= 2
        /\ HeaderMaps(CsvInput)) =>
        /\ Ret.ok
        /\ Ret.val = FirstRowRecord(CsvInput)

\* C5 amended: on a readable source with a header row and N >= 1 data rows
\* whose first data row maps to {name, age} under the header, the CSV reader
\* returns the record with exactly that row's name and age, the same result
\* as on the source cut after the first data row: rows 2..N have no influence.
C5_FirstRowReturned ==
    (CsvCalled /\ CsvInput.readable /\ Len(CsvInput.records) >= 2
        /\ FirstRowMaps(CsvInput)) =>
        /\ Ret = Ok(FirstRowRecord(CsvInput))
        /\ Ret = CsvProcessor_read_data(FirstRowOnly(CsvInput))

\* C5 witness: three data rows, the first good, the second bad, the third
\* another good one; the first was returned.
C5_Witness ==
    /\ CsvCalled
    /\ CsvInput.records = << <<NAME, AGE>>,
                             <<Bo, <<"6", "5", "5", "3", "5">>>>,
                             <<Al, <<"x">>>>,
                             <<Al, <<"3", "0">>>> >>
    /\ Ret = Ok(DocData(Bo, U16Max))

\* C6: on a readable source with a header row and no data row the CSV reader
\* returns the error "record not found", never a record.
C6_HeaderOnlyNotFound ==
    (CsvCalled /\ CsvInput.readable /\ Len(CsvInput.records) = 1) =>
        Ret = Err(RecordNotFound)

\* C6 witness: the reader ran on a file holding the header name,age alone.
C6_Witness ==
    /\ CsvCalled
    /\ CsvInput = CsvFile(TRUE, << <<NAME, AGE>> >>)
    /\ ~Ret.ok
    /\ Ret.val = RecordNotFound

\* C10: when the first data row does not map to {name, age}, the CSV reader
\* returns that row's parse error, whatever rows follow: not a later
\* well-formed row, and not "record not found".
C10_BadFirstRowIsTheError ==
    (CsvCalled /\ CsvInput.readable /\ Len(CsvInput.records) >= 2
        /\ ~FirstRowMaps(CsvInput)) =>
        /\ ~Ret.ok
        /\ Ret.val \in {UnequalLengths, InvalidInteger, MissingField, DuplicateField}
        /\ Ret = CsvDeserializeRecord(CsvInput.records[1], CsvInput.records[2])
        /\ Ret = CsvProcessor_read_data(FirstRowOnly(CsvInput))

\* C10 witness: the first data row has a non-numeric age and a well-formed
\* row follows; the reader returned the integer error.
C10_Witness ==
    /\ CsvCalled
    /\ CsvInput.records = << <<NAME, AGE>>, <<Al, <<"x">>>>, <<Bo, <<"7">>>> >>
    /\ Ret = Err(InvalidInteger)

\* The members of a JSON object with a given key.
Members(text, key) == { i \in 1..Len(text.elems) : text.elems[i].k = key }
Member(text, key) == text.elems[CHOOSE i \in Members(text, key) : TRUE].v

IsU16(v) == v.t = "int" /\ v.n >= 0 /\ v.n <= U16Max

\* The source is one JSON object holding a string name and a 16-bit integer
\* age, once each; further members do not count.
IsRecordObject(file) ==
    /\ file.readable /\ file.text.json /\ ~file.text.trailing
    /\ file.text.kind = "obj"
    /\ Cardinality(Members(file.text, "name")) = 1
    /\ Cardinality(Members(file.text, "age")) = 1
    /\ Member(file.text, "name").t = "str"
    /\ IsU16(Member(file.text, "age"))

\* The source is the JSON array [name, age].
IsRecordArray(file) ==
    /\ file.readable /\ file.text.json /\ ~file.text.trailing
    /\ file.text.kind = "arr"
    /\ Len(file.text.elems) = 2
    /\ file.text.elems[1].v.t = "str"
    /\ IsU16(file.text.elems[2].v)

\* C7 as stated: a source holding one object {name, age} yields that record
\* and every source that is unreadable or not such an object yields an error
\* ("such an object" taken at its widest: further members and any member
\* order are allowed, the age is any integer that fits the 16-bit field).
C7_AsStated ==
    JsonCalled =>
        /\ IsRecordObject(JsonInput) =>
               Ret = Ok(DocData(Member(JsonInput.text, "name").s,
                                Member(JsonInput.text, "age").n))
        /\ ~IsRecordObject(JsonInput) => ~Ret.ok

\* C7 amended: the JSON reader parses the entire source as one record: one
\* object with a string name and an integer age of 0..65535 (once each, other
\* members ignored) yields that record, and so does the two-item array
\* [name, age]; every other source (unreadable, no JSON, text after the
\* value, any other value, a missing, repeated or ill-typed name or age)
\* yields an error and never a record.
C7_JsonOneRecord ==
    JsonCalled =>
        /\ IsRecordObject(JsonInput) =>
               Ret = Ok(DocData(Member(JsonInput.text, "name").s,
                                Member(JsonInput.text, "age").n))
        /\ IsRecordArray(JsonInput) =>
               Ret = Ok(DocData(JsonInput.text.elems[1].v.s,
                                JsonInput.text.elems[2].v.n))
        /\ (~IsRecordObject(JsonInput) /\ ~IsRecordArray(JsonInput)) => ~Ret.ok

\* C7 witness: {"name":"Alice","age":30} was read as name Alice, age 30.
C7_Witness ==
    /\ JsonCalled
    /\ JsonInput = JsonFile(TRUE, JsonText("obj",
           << [k |-> "name", v |-> JStr("Alice")],
              [k |-> "age", v |-> JInt(30)] >>, FALSE))
    /\ Ret = Ok(DocData("Alice", 30))

----------------------------------------------------------------------------
\* Properties of factory_method::run() (SpecDocRun)

FileNames == [i \in 1..Len(file_info_list) |-> file_info_list[i].name]
Printed == SelectSeq(output, LAMBDA line : line.stream = "stdout")
Diagnostics == SelectSeq(output, LAMBDA line : line.stream = "stderr")

\* The reader the factory gives for a document type.
ReaderOf(doc_type) == IF doc_type = "Json" THEN "JsonProcessor" ELSE "CsvProcessor"

\* C8: run() processes data.json with the JSON reader, then data.csv with the
\* CSV reader, each read at most once; an error on a file ends the run there
\* with a diagnostic, without printing that file's record and without
\* reading or printing any later file.
C8_InOrderAndErrorsTerminal ==
    /\ reads = SubSeq(FileNames, 1, Len(reads))
    /\ Len(Printed) <= Len(reads)
    /\ \A i \in 1..Len(Printed) :
           /\ Printed[i].file = FileNames[i]
           /\ DocumentEditor_read_data(
                  [file_name |-> FileNames[i],
                   reader |-> ReaderOf(file_info_list[i].type)], fs)
                  = Ok(Printed[i].text)
    /\ document_editor # None =>
           /\ document_editor[1].file_name = FileNames[doc_idx]
           /\ document_editor[1].reader = ReaderOf(file_info_list[doc_idx].type)
    /\ doc_pc = "panicked" =>
           /\ ~reader_call[1].ret.ok
           /\ reader_call[1].file_name = FileNames[doc_idx]
           /\ Len(reads) = doc_idx
           /\ Len(Printed) = doc_idx - 1
           /\ Len(Diagnostics) = 1
           /\ output[Len(output)].stream = "stderr"
           /\ ~ENABLED DocRunNext
    /\ doc_pc # "panicked" => Diagnostics = <<>>
    /\ doc_pc = "done" =>
           /\ reads = FileNames
           /\ Len(Printed) = Len(FileNames)

\* C8 witness: data.json failed to parse while data.csv holds a good record;
\* the run stopped at data.json and nothing was printed.
C8_Witness ==
    /\ doc_pc = "panicked"
    /\ doc_idx = 1
    /\ reads = <<"data.json">>
    /\ Printed = <<>>
    /\ CsvProcessor_read_data(fs["data.csv"]).ok

====
